---- MODULE Spec2Model ----
(***************************************************************************)
(* Model of app/src/main/assets/conv.py: a script that loads a Keras model *)
(* from 'mobilenet_7.h5', converts it to a TFLite flatbuffer, writes the   *)
(* buffer to 'fer_mobilenet.tflite' inside a with-block and prints a       *)
(* success message.  The state is the script's variables (model,           *)
(* tflite_model, f), its position (pc), and the environment the script     *)
(* acts on: the two files and standard output.                             *)
(*                                                                         *)
(* Library calls are modelled by their outcome as seen from the script:    *)
(*   load_model  raises when the path is missing or not a model file;      *)
(*   convert     raises when the model holds an op TFLite does not support,*)
(*               otherwise yields a buffer determined by the model alone   *)
(*               (the script sets no converter option);                    *)
(*   open(,'wb') raises when the path is not writable, otherwise creates   *)
(*               or truncates the file;                                    *)
(*   f.write     hands the buffer to a buffered writer: a prefix reaches   *)
(*               the file, the tail stays buffered until close; an I/O     *)
(*               error leaves the prefix written so far;                   *)
(*   with-exit   flushes the tail and releases the handle, also when the   *)
(*               flush or the write raised.                                *)
(***************************************************************************)
EXTENDS Naturals, Sequences, FiniteSets

VARIABLES
    pc,            \* position of the script: the statement to execute next
    srcFile,       \* 'mobilenet_7.h5' on disk
    destFile,      \* 'fer_mobilenet.tflite' on disk
    destWritable,  \* whether open('fer_mobilenet.tflite', 'wb') can succeed
    destPrior,     \* destFile as it was when this run started
    model,         \* the script's variable model
    tflite_model,  \* the script's variable tflite_model
    f,             \* the file handle of the with-block
    fbuf,          \* bytes accepted by f.write and not yet flushed to disk
    console,       \* lines printed to standard output by this run
    log,           \* statements executed by this run, with their outcome
    run,           \* number of the current run of the script
    outputs        \* (source, destination content) of earlier successful runs

vars == <<pc, srcFile, destFile, destWritable, destPrior, model, tflite_model,
          f, fbuf, console, log, run, outputs>>

----------------------------------------------------------------------------
(* Bounds *)

MaxLayers == 2
MaxRuns == 3

----------------------------------------------------------------------------
(* Files and values *)

Ops == {"Conv2D", "Dense", "Lambda"}

LayerSeqs == UNION {[1..n -> Ops] : n \in 1..MaxLayers}

NoSrc == [exists |-> FALSE, valid |-> FALSE, layers |-> <<>>]
CorruptSrc == [exists |-> TRUE, valid |-> FALSE, layers |-> <<>>]
ModelFile(s) == [exists |-> TRUE, valid |-> TRUE, layers |-> s]

SrcFiles == {NoSrc, CorruptSrc} \cup {ModelFile(s) : s \in LayerSeqs}

NoFile == [exists |-> FALSE, data |-> <<>>]
File(d) == [exists |-> TRUE, data |-> d]

DestPriors == {NoFile, File(<<>>), File(<<"junk">>), File(<<"TFL3", "CONV_2D">>)}

NoModel == [loaded |-> FALSE, layers |-> <<>>]
NoBytes == <<>>

SuccessMsg == "Model converted successfully!"

Order == <<"load", "convert", "open", "write", "close", "print">>

----------------------------------------------------------------------------
(* The library calls as functions of their input *)

\* tf.keras.models.load_model(path): the in-memory model of a model file
LoadModel(file) == [loaded |-> TRUE, layers |-> file.layers]

CanLoad(file) == file.exists /\ file.valid

\* TFLite has no builtin for a Lambda layer: conversion raises
Supported(m) == \A i \in 1..Len(m.layers) : m.layers[i] # "Lambda"

OpCode(op) == IF op = "Conv2D" THEN "CONV_2D" ELSE "FULLY_CONNECTED"

\* converter.convert() under default settings: file identifier, then one
\* operator code per layer
ConvertBytes(m) == <<"TFL3">> \o [i \in 1..Len(m.layers) |-> OpCode(m.layers[i])]

IsPrefix(s, t) == Len(s) <= Len(t) /\ SubSeq(t, 1, Len(s)) = s

----------------------------------------------------------------------------
(* Steps *)

Done(step) == log' = Append(log, [step |-> step, ok |-> TRUE])

\* variant: the failing statement is tried again
RaiseRetry(step) ==
    /\ pc' = pc
    /\ log' = Append(log, [step |-> step, ok |-> FALSE])

\* an exception nobody catches: the process ends
Raise(step) ==
    /\ pc' = "failed"
    /\ log' = Append(log, [step |-> step, ok |-> FALSE])

\* line 3
LoadOk ==
    /\ pc = "load"
    /\ CanLoad(srcFile)
    /\ model' = LoadModel(srcFile)
    /\ pc' = "convert"
    /\ Done("load")
    /\ UNCHANGED <<srcFile, destFile, destWritable, destPrior, tflite_model,
                   f, fbuf, console, run, outputs>>

\* variant: the destination is opened before the load
LoadFailDestOpened ==
    /\ pc = "load"
    /\ ~CanLoad(srcFile)
    /\ destFile' = File(<<>>)
    /\ Raise("load")
    /\ UNCHANGED <<srcFile, destWritable, destPrior, model,
                   tflite_model, f, fbuf, console, run, outputs>>

LoadFail ==
    /\ pc = "load"
    /\ ~CanLoad(srcFile)
    /\ Raise("load")
    /\ UNCHANGED <<srcFile, destFile, destWritable, destPrior, model,
                   tflite_model, f, fbuf, console, run, outputs>>

\* lines 5-6
ConvertOk ==
    /\ pc = "convert"
    /\ Supported(model)
    /\ tflite_model' = ConvertBytes(model)
    /\ pc' = "open"
    /\ Done("convert")
    /\ UNCHANGED <<srcFile, destFile, destWritable, destPrior, model,
                   f, fbuf, console, run, outputs>>

\* variant: convert() is called inside the with-block
ConvertFailInsideWith ==
    /\ pc = "convert"
    /\ ~Supported(model)
    /\ destFile' = IF destWritable THEN File(<<>>) ELSE destFile
    /\ Raise("convert")
    /\ UNCHANGED <<srcFile, destWritable, destPrior, model,
                   tflite_model, f, fbuf, console, run, outputs>>

ConvertFail ==
    /\ pc = "convert"
    /\ ~Supported(model)
    /\ Raise("convert")
    /\ UNCHANGED <<srcFile, destFile, destWritable, destPrior, model,
                   tflite_model, f, fbuf, console, run, outputs>>

\* variant: mode 'ab' keeps what the file held
OpenAppend ==
    /\ pc = "open"
    /\ destWritable
    /\ destFile' = File(destFile.data)
    /\ f' = "open"
    /\ fbuf' = <<>>
    /\ pc' = "write"
    /\ Done("open")
    /\ UNCHANGED <<srcFile, destWritable, destPrior, model, tflite_model,
                   console, run, outputs>>

\* line 8: mode 'wb' creates the file or truncates it
OpenOk ==
    /\ pc = "open"
    /\ destWritable
    /\ destFile' = File(<<>>)
    /\ f' = "open"
    /\ fbuf' = <<>>
    /\ pc' = "write"
    /\ Done("open")
    /\ UNCHANGED <<srcFile, destWritable, destPrior, model, tflite_model,
                   console, run, outputs>>

\* variant: the error of open is caught and the script goes on
OpenFailCaught ==
    /\ pc = "open"
    /\ ~destWritable
    /\ pc' = "print"
    /\ log' = Append(log, [step |-> "open", ok |-> FALSE])
    /\ UNCHANGED <<srcFile, destFile, destWritable, destPrior, model,
                   tflite_model, f, fbuf, console, run, outputs>>

OpenFail ==
    /\ pc = "open"
    /\ ~destWritable
    /\ Raise("open")
    /\ UNCHANGED <<srcFile, destFile, destWritable, destPrior, model,
                   tflite_model, f, fbuf, console, run, outputs>>

\* line 9: the first k bytes reach the file, the tail waits in the buffer
WriteOk(k) ==
    /\ pc = "write"
    /\ f = "open"
    /\ destFile' = File(destFile.data \o SubSeq(tflite_model, 1, k))
    /\ fbuf' = fbuf \o SubSeq(tflite_model, k + 1, Len(tflite_model))
    /\ pc' = "close"
    /\ Done("write")
    /\ UNCHANGED <<srcFile, destWritable, destPrior, model, tflite_model, f,
                   console, run, outputs>>

\* variant: f = open(...) without the with-block
WriteFailNoRelease(k) ==
    /\ pc = "write"
    /\ f = "open"
    /\ destFile' = File(destFile.data \o SubSeq(tflite_model, 1, k))
    /\ fbuf' = <<>>
    /\ Raise("write")
    /\ UNCHANGED <<srcFile, destWritable, destPrior, model, tflite_model, f,
                   console, run, outputs>>

\* line 9 raising after k bytes; leaving the with-block releases the handle
\* and the exception goes on
WriteFail(k) ==
    /\ pc = "write"
    /\ f = "open"
    /\ destFile' = File(destFile.data \o SubSeq(tflite_model, 1, k))
    /\ fbuf' = <<>>
    /\ f' = "closed"
    /\ Raise("write")
    /\ UNCHANGED <<srcFile, destWritable, destPrior, model, tflite_model,
                   console, run, outputs>>

\* variant: the handle is dropped without flushing the tail
CloseNoFlush ==
    /\ pc = "close"
    /\ f = "open"
    /\ fbuf' = <<>>
    /\ f' = "closed"
    /\ pc' = "print"
    /\ Done("close")
    /\ UNCHANGED <<srcFile, destFile, destWritable, destPrior, model,
                   tflite_model, console, run, outputs>>

\* end of the with-block: flush the tail, release the handle
CloseOk ==
    /\ pc = "close"
    /\ f = "open"
    /\ destFile' = File(destFile.data \o fbuf)
    /\ fbuf' = <<>>
    /\ f' = "closed"
    /\ pc' = "print"
    /\ Done("close")
    /\ UNCHANGED <<srcFile, destWritable, destPrior, model, tflite_model,
                   console, run, outputs>>

\* variant: the error of the flush is swallowed
CloseFailSwallowed(j) ==
    /\ pc = "close"
    /\ f = "open"
    /\ destFile' = File(destFile.data \o SubSeq(fbuf, 1, j))
    /\ fbuf' = <<>>
    /\ f' = "closed"
    /\ pc' = "print"
    /\ log' = Append(log, [step |-> "close", ok |-> FALSE])
    /\ UNCHANGED <<srcFile, destWritable, destPrior, model, tflite_model,
                   console, run, outputs>>

\* variant: a failed flush puts the previous destination back
CloseFailRollback(j) ==
    /\ pc = "close"
    /\ f = "open"
    /\ destFile' = destPrior
    /\ fbuf' = <<>>
    /\ f' = "closed"
    /\ Raise("close")
    /\ UNCHANGED <<srcFile, destWritable, destPrior, model, tflite_model,
                   console, run, outputs>>

\* the flush raising after j bytes of the tail; the handle is released all
\* the same and the exception leaves the with-block
CloseFail(j) ==
    /\ pc = "close"
    /\ f = "open"
    /\ destFile' = File(destFile.data \o SubSeq(fbuf, 1, j))
    /\ fbuf' = <<>>
    /\ f' = "closed"
    /\ Raise("close")
    /\ UNCHANGED <<srcFile, destWritable, destPrior, model, tflite_model,
                   console, run, outputs>>

\* variant: the print sits inside the with-block, after the write
PrintMsgInsideWith ==
    /\ \/ /\ pc = "close"
          /\ console = <<>>
          /\ console' = Append(console, SuccessMsg)
          /\ pc' = "close"
          /\ Done("print")
       \/ /\ pc = "print"
          /\ pc' = "done"
          /\ UNCHANGED <<console, log>>
    /\ UNCHANGED <<srcFile, destFile, destWritable, destPrior, model,
                   tflite_model, f, fbuf, run, outputs>>

\* line 11
PrintMsg ==
    /\ pc = "print"
    /\ console' = Append(console, SuccessMsg)
    /\ pc' = "done"
    /\ Done("print")
    /\ UNCHANGED <<srcFile, destFile, destWritable, destPrior, model,
                   tflite_model, f, fbuf, run, outputs>>

Terminated == pc \in {"done", "failed"}

\* the script is started again in a fresh process: the files stay, the
\* source may have been replaced and the permissions changed meanwhile
Restart(src, w) ==
    /\ Terminated
    /\ run < MaxRuns
    /\ run' = run + 1
    /\ outputs' = IF pc = "done"
                    THEN outputs \cup {[src |-> srcFile, out |-> destFile.data]}
                    ELSE outputs
    /\ srcFile' = src
    /\ destWritable' = w
    /\ destPrior' = destFile
    /\ pc' = "load"
    /\ model' = NoModel
    /\ tflite_model' = NoBytes
    /\ f' = "none"
    /\ fbuf' = <<>>
    /\ console' = <<>>
    /\ log' = <<>>
    /\ UNCHANGED destFile

----------------------------------------------------------------------------

Init ==
    /\ pc = "load"
    /\ srcFile \in SrcFiles
    /\ destFile \in DestPriors
    /\ destWritable \in BOOLEAN
    /\ destPrior = destFile
    /\ model = NoModel
    /\ tflite_model = NoBytes
    /\ f = "none"
    /\ fbuf = <<>>
    /\ console = <<>>
    /\ log = <<>>
    /\ run = 1
    /\ outputs = {}

Step ==
    \/ LoadOk
    \/ LoadFail
    \/ ConvertOk
    \/ ConvertFail
    \/ OpenOk
    \/ OpenFail
    \/ \E k \in 0..Len(tflite_model) : WriteOk(k)
    \/ \E k \in 0..(Len(tflite_model) - 1) : WriteFail(k)
    \/ CloseOk
    \/ \E j \in 0..(Len(fbuf) - 1) : CloseFail(j)
    \/ PrintMsg

Next == Step

Spec == Init /\ [][Next]_vars

NextTwice ==
    \/ Step
    \/ \E src \in SrcFiles, w \in BOOLEAN : Restart(src, w)

SpecTwice == Init /\ [][NextTwice]_vars

----------------------------------------------------------------------------
(* Properties *)

StepNames == [i \in 1..Len(log) |-> log[i].step]

AllOk == \A i \in 1..Len(log) : log[i].ok

FailedAt(step) ==
    /\ pc = "failed"
    /\ Len(log) > 0
    /\ log[Len(log)].step = step
    /\ ~log[Len(log)].ok

Completed(step) == \E i \in 1..Len(log) : log[i].step = step /\ log[i].ok

\* C1: the statements of a run are executed in the fixed order load, convert,
\* open/write/close, print, each at most once, and a statement is executed
\* only when every earlier one has completed without error; the script's
\* variables and the output reflect exactly the completed statements.
C1_FixedOrder ==
    /\ IsPrefix(StepNames, Order)
    /\ \A i \in 1..(Len(log) - 1) : log[i].ok
    /\ model.loaded <=> Completed("load")
    /\ tflite_model # NoBytes <=> Completed("convert")
    /\ f # "none" <=> Completed("open")
    /\ console # <<>> <=> Completed("print")
    /\ pc = "done" <=> (StepNames = Order /\ AllOk)
    /\ Completed("write") => Completed("convert")
    /\ Completed("print") => Completed("close")

C1_Witness == pc = "done" /\ StepNames = Order /\ console = <<SuccessMsg>>

\* C2: when the source path does not exist the run fails at the load and the
\* destination is never opened, created or written: it stays what it was.
C2_MissingSourceNoDest ==
    ~srcFile.exists =>
        /\ pc \in {"load", "failed"}
        /\ destFile = destPrior
        /\ f = "none"
        /\ fbuf = <<>>
        /\ ~Completed("open")
        /\ pc = "failed" => log = <<[step |-> "load", ok |-> FALSE]>>

C2_Witness == ~srcFile.exists /\ FailedAt("load") /\ ~destFile.exists

\* C3: when opening the destination for writing fails, load and conversion
\* have both succeeded, no byte has been persisted (the destination is what
\* it was) and the success message is not printed.
C3_UnwritableDest ==
    /\ FailedAt("open") =>
        /\ ~destWritable
        /\ StepNames = <<"load", "convert", "open">>
        /\ Completed("load") /\ Completed("convert")
        /\ tflite_model = ConvertBytes(LoadModel(srcFile))
        /\ f = "none"
    /\ ~destWritable =>
        /\ destFile = destPrior
        /\ console = <<>>
        /\ pc # "done"

C3_Witness ==
    FailedAt("open") /\ ~destWritable /\ destFile.exists /\ destFile.data # <<>>

\* C4: after a successful run the destination holds exactly the converted
\* buffer, handed over by one write call, whatever the destination held.
C4_DestHoldsBuffer ==
    pc = "done" =>
        /\ destFile = File(tflite_model)
        /\ tflite_model = ConvertBytes(LoadModel(srcFile))
        /\ fbuf = <<>>
        /\ Cardinality({i \in 1..Len(log) : log[i].step = "write"}) = 1

C4_Witness ==
    /\ pc = "done"
    /\ destPrior.exists
    /\ destPrior.data # <<>>
    /\ destPrior # destFile
    /\ Len(destFile.data) > 1

\* C5: the handle is held only inside the with-block and is released on
\* every way out of it: no terminal state holds an open handle.
C5_HandleReleased ==
    /\ f = "open" => pc \in {"write", "close"}
    /\ Terminated => f # "open"
    /\ (Terminated /\ Completed("open")) => f = "closed"
    /\ pc \in {"load", "convert", "open"} => f = "none"

C5_Witness == FailedAt("write") /\ f = "closed" /\ Completed("open")

C7_FailureIsLast ==
    /\ pc = "failed" <=> (Len(log) > 0 /\ ~log[Len(log)].ok)
    /\ \A i \in 1..Len(log) : ~log[i].ok => i = Len(log)
    /\ \A i, j \in 1..Len(log) : log[i].step = log[j].step => i = j

\* C7: a failure of any statement ends the run in the failed state, which is
\* absorbing: no statement is executed after it, none is tried again, and
\* neither the destination nor the output changes any more.
C7_FailedAbsorbing ==
    /\ []C7_FailureIsLast
    /\ [][pc = "failed" => (pc' = "failed" /\ UNCHANGED vars)]_vars

C7_Witness == FailedAt("convert") /\ Len(log) = 2

C9_NoRollback ==
    (FailedAt("write") \/ FailedAt("close")) =>
        /\ destFile.exists
        /\ IsPrefix(destFile.data, tflite_model)
        /\ f = "closed"
        /\ console = <<>>

C9_Witness ==
    /\ FailedAt("close")
    /\ destPrior = File(<<"junk">>)
    /\ destFile = File(<<"TFL3">>)

\* C10: no statement before the open touches the destination: while the
\* open has not succeeded, and so after a failed load or conversion, the
\* destination is what it was when the run started.
C10_DestUntouchedBeforeOpen ==
    ~Completed("open") => destFile = destPrior

C10_Witness ==
    /\ FailedAt("convert")
    /\ destWritable
    /\ destFile.exists
    /\ destFile.data # <<>>

====
